---- MODULE Spec2Model ----
(***************************************************************************)
(* Location-logging backend (src/backend/main.go): two HTTP routes over a  *)
(* single GORM/SQLite table "locations".                                   *)
(*                                                                         *)
(* Requests are served by concurrent goroutines (net/http); a request is   *)
(* modelled by a connection slot that runs the CORS wrapper and the        *)
(* handler up to its database call in one step, and the database call with *)
(* the response that follows it in a second step.  The database call is    *)
(* atomic: GORM runs the INSERT in its own transaction and SQLite          *)
(* serialises writers.                                                     *)
(*                                                                         *)
(* Numbers: Latitude and Longitude stand for float64 values, timestamps    *)
(* for instants; 0 is Go's zero value of each type.  The clock is seen     *)
(* only through inserts: each insert reads the instant of the previous     *)
(* insert or a later one.                                                  *)
(***************************************************************************)
EXTENDS Integers, Sequences, FiniteSets, TLC

\* ---------------------------------------------------------------- bounds
NumConns == 2        \* requests that may be in flight at once
MaxRows == 2         \* rows the table may hold

Conns == 1..NumConns
ClientIDs == {1, 2}       \* non-zero "ID" values a request body carries
ClientTimes == {1}        \* "Timestamp" values a request body carries: an
                          \* instant before the server started

\* ------------------------------------------------------------- constants
StatusOK == 200
StatusCreated == 201
StatusBadRequest == 400
StatusNotFound == 404
StatusMethodNotAllowed == 405
StatusInternalServerError == 500

\* ------------------------------------------------------------ data model
\* type Location struct { ID uint; Latitude, Longitude float64; Timestamp time.Time }
Location(id, lat, lon, ts) ==
    [ID |-> id, Latitude |-> lat, Longitude |-> lon, Timestamp |-> ts]

\* var newLocation Location / var lastLocation Location : the zero value
ZeroLocation == Location(0, 0, 0, 0)

\* A JSON member of a request body: absent, a number, or a string.
Absent == [t |-> "absent", v |-> 0]
Num(n) == [t |-> "num", v |-> n]
Str == [t |-> "str", v |-> 0]

\* Request bodies: text that is not JSON (an empty body included), or a JSON
\* object with any of the members of Location.
Garbage ==
    [json |-> FALSE, ID |-> Absent, Latitude |-> Absent,
     Longitude |-> Absent, Timestamp |-> Absent]

\* JSON objects the decoder accepts: with or without an ID, with or without
\* coordinates, and one with a Timestamp.
Objects ==
    {[json |-> TRUE, ID |-> id, Latitude |-> co[1], Longitude |-> co[2],
      Timestamp |-> Absent] :
        id \in {Absent} \cup {Num(i) : i \in ClientIDs},
        co \in {<<Absent, Absent>>, <<Num(1), Num(2)>>}}
    \cup {[json |-> TRUE, ID |-> Absent, Latitude |-> Num(1),
           Longitude |-> Num(2), Timestamp |-> Num(t)] : t \in ClientTimes}

\* JSON objects the decoder rejects: a string for the float64 Latitude, a
\* negative number for the uint ID.
BadObjects ==
    {[json |-> TRUE, ID |-> Absent, Latitude |-> Str, Longitude |-> Num(2),
      Timestamp |-> Absent],
     [json |-> TRUE, ID |-> Num(-1), Latitude |-> Num(1), Longitude |-> Num(2),
      Timestamp |-> Absent]}

Bodies == {Garbage} \cup BadObjects \cup Objects

\* A well-formed body, as the client sends it.
ValidBody ==
    [json |-> TRUE, ID |-> Absent, Latitude |-> Num(1), Longitude |-> Num(2),
     Timestamp |-> Absent]

PathLocation == "/api/location"
PathLast == "/api/location/last"
Paths == {PathLocation, PathLast}

Request(path, method, body) == [path |-> path, method |-> method, body |-> body]

\* Requests: POST /api/location with every body; the other method and path
\* combinations with an empty body (text that is not JSON) or a valid one.
Requests ==
    {Request(PathLocation, "POST", b) : b \in Bodies}
    \cup {Request(p, "OPTIONS", Garbage) : p \in Paths}
    \cup {Request(PathLocation, "GET", Garbage),
          Request(PathLocation, "PUT", ValidBody),
          Request(PathLast, "GET", Garbage),
          Request(PathLast, "POST", ValidBody),
          Request(PathLast, "PUT", Garbage)}

NoRequest == [path |-> "", method |-> "", body |-> Garbage]

\* ------------------------------------------------------------- responses
Response(status, header, msg, loc) ==
    [status |-> status, header |-> header, msg |-> msg, loc |-> loc]

NoResponse == Response(0, {}, "", ZeroLocation)

\* http.Error(w, msg, code): the headers already set on w stay.
Error(header, msg, code) == Response(code, header, msg, ZeroLocation)

\* result.Error of a call on DB
NoError == "nil"
ErrRecordNotFound == "record not found"
ErrConstraint == "UNIQUE constraint failed: locations.id"
ErrStore == "store failure"

\* An exchange: a request, the response written for it, the number of calls
\* made on DB while handling it and the error of the last such call.
Exchange(req, rsp, n, err) == [req |-> req, resp |-> rsp, dbOps |-> n, err |-> err]

NoExchange == Exchange(NoRequest, NoResponse, 0, NoError)

\* ------------------------------------------------------------- variables
VARIABLES
    DB,           \* rows of table "locations", in insertion order
    now,          \* the latest instant the store has read from its clock
    pc,           \* per connection: "idle", "create" or "first"
    r,            \* per connection: the request being handled
    w,            \* per connection: headers set on the ResponseWriter
    newLocation,  \* per connection: handlePostLocation's local
    prev,         \* the exchange completed most recently
    created       \* number of 201 responses written so far

vars == <<DB, now, pc, r, w, newLocation, prev, created>>

\* --------------------------------------------------------- JSON decoding
\* json.NewDecoder(r.Body).Decode(&newLocation): fails on text that is not
\* JSON, on a string where a number is expected and on a negative number
\* for the uint ID.
DecodeOKLenient(body) == body.json

DecodeOK(body) ==
    /\ body.json
    /\ body.ID.t # "str" /\ body.ID.v >= 0
    /\ body.Latitude.t # "str"
    /\ body.Longitude.t # "str"
    /\ body.Timestamp.t # "str"

\* The decoded value: members that are absent leave the zero value.
Decode(body) ==
    Location(body.ID.v, body.Latitude.v, body.Longitude.v, body.Timestamp.v)

\* ------------------------------------------------------------- the store
RECURSIVE MaxID(_)
MaxID(rows) ==
    IF rows = <<>> THEN 0
    ELSE LET m == MaxID(Tail(rows))
         IN  IF Head(rows).ID > m THEN Head(rows).ID ELSE m

IDs(rows) == {rows[i].ID : i \in 1..Len(rows)}

\* ID uint `gorm:"primaryKey"`: an auto-increment integer primary key; with
\* no deletes the next key is one more than the largest key of the table.
NextID(rows) == MaxID(rows) + 1

\* The row GORM writes for a value: a zero ID is left to the table's
\* auto-increment, a zero Timestamp (autoCreateTime) is set to the current
\* time; non-zero fields are written as given.
RowFor(rows, loc, t) ==
    Location(IF loc.ID = 0 THEN NextID(rows) ELSE loc.ID,
             loc.Latitude, loc.Longitude,
             IF loc.Timestamp = 0 THEN t ELSE loc.Timestamp)

\* result.Error of DB.Create(&newLocation): the store fails, or the primary
\* key is already present.
CreateErrorNoUnique(rows, loc, fault) ==
    IF fault THEN ErrStore ELSE NoError

CreateError(rows, loc, fault) ==
    IF fault THEN ErrStore
    ELSE IF loc.ID # 0 /\ loc.ID \in IDs(rows) THEN ErrConstraint
    ELSE NoError

\* The table after DB.Create(&newLocation): a failed insert is rolled back.
Create(rows, loc, t, fault) ==
    IF CreateError(rows, loc, fault) # NoError THEN rows
    ELSE Append(rows, RowFor(rows, loc, t))

\* result.Error of DB.Order("id DESC").First(&lastLocation)
FirstErrorIgnoringEmpty(rows, fault) ==
    IF fault THEN ErrStore ELSE NoError

FirstError(rows, fault) ==
    IF fault THEN ErrStore
    ELSE IF rows = <<>> THEN ErrRecordNotFound
    ELSE NoError

\* lastLocation after DB.Order("id DESC").First(&lastLocation): the row with
\* the largest ID; left at its zero value when the call fails.
First(rows, fault) ==
    IF FirstError(rows, fault) # NoError \/ rows = <<>> THEN ZeroLocation
    ELSE CHOOSE row \in {rows[i] : i \in 1..Len(rows)} : row.ID = MaxID(rows)

\* ------------------------------------------------------------------ Init
Init ==
    /\ DB = <<>>
    /\ now = 2
    /\ pc = [c \in Conns |-> "idle"]
    /\ r = [c \in Conns |-> NoRequest]
    /\ w = [c \in Conns |-> {}]
    /\ newLocation = [c \in Conns |-> ZeroLocation]
    /\ prev = NoExchange
    /\ created = 0

\* --------------------------------------------------------------- actions
\* The handler of connection c returns having written rsp after n calls on
\* DB, the last of which returned err.
Respond(c, req, rsp, n, err) ==
    /\ prev' = Exchange(req, rsp, n, err)
    /\ pc' = [pc EXCEPT ![c] = "idle"]
    /\ r' = [r EXCEPT ![c] = NoRequest]
    /\ w' = [w EXCEPT ![c] = {}]
    /\ newLocation' = [newLocation EXCEPT ![c] = ZeroLocation]
    /\ created' = IF rsp.status = StatusCreated THEN created + 1 ELSE created

\* The handler of connection c goes on to its database call.
Proceed(c, req, header, loc, label) ==
    /\ pc' = [pc EXCEPT ![c] = label]
    /\ r' = [r EXCEPT ![c] = req]
    /\ w' = [w EXCEPT ![c] = header]
    /\ newLocation' = [newLocation EXCEPT ![c] = loc]
    /\ UNCHANGED <<prev, created>>

\* Rows that requests in flight may still add.
Pending == Cardinality({c \in Conns : pc[c] = "create"})

\* enableCORS: the three headers set on every response.
CORSHeaders ==
    {"Access-Control-Allow-Origin", "Access-Control-Allow-Methods",
     "Access-Control-Allow-Headers"}

\* if r.Method != http.MethodPost / http.MethodGet
WrongMethodExceptPut(req, allowed) == req.method \notin {allowed, "PUT"}

WrongMethod(req, allowed) == req.method # allowed

\* The preflight test of enableCORS.
IsPreflightNever(req) == FALSE

IsPreflight(req) == req.method = "OPTIONS"

\* handlePostLocation up to DB.Create: method check, then decoding.
handlePostLocation(c, req, header) ==
    \/ /\ WrongMethod(req, "POST")
       /\ Respond(c, req,
                  Error(header, "Method not allowed", StatusMethodNotAllowed),
                  0, NoError)
    \/ /\ ~WrongMethod(req, "POST")
       /\ ~DecodeOK(req.body)
       /\ Respond(c, req,
                  Error(header, "Invalid request payload", StatusBadRequest),
                  0, NoError)
    \/ /\ ~WrongMethod(req, "POST")
       /\ DecodeOK(req.body)
       /\ Len(DB) + Pending < MaxRows
       /\ Proceed(c, req, header, Decode(req.body), "create")

\* handleGetLastLocation up to DB.Order(...).First: method check.
handleGetLastLocation(c, req, header) ==
    \/ /\ WrongMethod(req, "GET")
       /\ Respond(c, req,
                  Error(header, "Method not allowed", StatusMethodNotAllowed),
                  0, NoError)
    \/ /\ ~WrongMethod(req, "GET")
       /\ Proceed(c, req, header, ZeroLocation, "first")

\* enableCORS(next): sets the headers, answers OPTIONS itself, otherwise
\* calls the route's handler (the mux routes by path).
enableCORS(c, req) ==
    /\ pc[c] = "idle"
    /\ UNCHANGED <<DB, now>>
    /\ LET header == CORSHeaders
       IN  \/ /\ IsPreflight(req)
              /\ Respond(c, req, Response(StatusOK, header, "", ZeroLocation),
                         0, NoError)
           \/ /\ ~IsPreflight(req)
              /\ req.path = PathLocation
              /\ handlePostLocation(c, req, header)
           \/ /\ ~IsPreflight(req)
              /\ req.path = PathLast
              /\ handleGetLastLocation(c, req, header)

\* The response handlePostLocation writes after DB.Create.
SaveResponseAlwaysCreated(header, err) ==
    Response(StatusCreated, header, "Location saved successfully", ZeroLocation)

SaveResponse(header, err) ==
    IF err # NoError
    THEN Error(header, "Failed to save location", StatusInternalServerError)
    ELSE Response(StatusCreated, header, "Location saved successfully",
                  ZeroLocation)

\* The response handleGetLastLocation writes after the query.
LastResponse(header, err, lastLocation) ==
    IF err = ErrRecordNotFound
    THEN Error(header, "No locations found", StatusNotFound)
    ELSE IF err # NoError
    THEN Error(header, "Failed to retrieve last location",
               StatusInternalServerError)
    ELSE Response(StatusOK, header \cup {"Content-Type"}, "", lastLocation)

\* handlePostLocation from DB.Create on.
PostCreate(c, fault, t) ==
    /\ pc[c] = "create"
    /\ DB' = Create(DB, newLocation[c], t, fault)
    /\ LET err == CreateError(DB, newLocation[c], fault)
       IN  /\ now' = IF err = NoError THEN t ELSE now
           /\ Respond(c, r[c], SaveResponse(w[c], err), 1, err)

\* handleGetLastLocation from the query on.
GetFirst(c, fault) ==
    /\ pc[c] = "first"
    /\ UNCHANGED <<DB, now>>
    /\ LET err == FirstError(DB, fault)
       IN  Respond(c, r[c], LastResponse(w[c], err, First(DB, fault)), 1, err)

\* A request arrives and is given a free connection; connections are
\* interchangeable, so it is given the first free one.
FreeConn(c) == pc[c] = "idle" /\ \A d \in Conns : d < c => pc[d] # "idle"

Serve == \E c \in Conns, req \in Requests : FreeConn(c) /\ enableCORS(c, req)
\* The clock read by an insert shows the instant of the previous insert or
\* a later one.
Save ==
    \E c \in Conns, fault \in BOOLEAN, t \in {now, now + 1} :
        PostCreate(c, fault, t)
Query == \E c \in Conns, fault \in BOOLEAN : GetFirst(c, fault)

Next == Serve \/ Save \/ Query

Spec == Init /\ [][Next]_vars

\* Requests handled one at a time: a request arrives only when no other is
\* in flight.
Quiet == \A c \in Conns : pc[c] = "idle"

SeqNext == (Quiet /\ Serve) \/ Save \/ Query

SeqSpec == Init /\ [][SeqNext]_vars

\* ================================================================ claims
IsPostLocation(x) == x.req.path = PathLocation /\ x.req.method = "POST"
IsGetLast(x) == x.req.path = PathLast /\ x.req.method = "GET"

\* Connection c leaves DB.Create / the query with this step.
Inserting(c) == pc[c] = "create" /\ pc'[c] = "idle"
Querying(c) == pc[c] = "first" /\ pc'[c] = "idle"

ThreeHeaders ==
    {"Access-Control-Allow-Origin", "Access-Control-Allow-Methods",
     "Access-Control-Allow-Headers"}

\* C1: once one or more POSTs have been answered 201, a GET
\* /api/location/last that the store answers returns 200 with the record of
\* the most recent of them, the last row inserted.
C1_LastIsNewest ==
    (IsGetLast(prev) /\ prev.dbOps = 1 /\ prev.err # ErrStore /\ created >= 1)
        => /\ prev.resp.status = StatusOK
           /\ prev.resp.loc = DB[Len(DB)]

\* C2: the identity of every stored record is strictly greater than the
\* identity of every record stored before it, so no two records share one.
C2_IdentityIncreasing ==
    \A i, j \in 1..Len(DB) : i < j => DB[i].ID < DB[j].ID

\* C3: a GET /api/location/last that directly follows a POST answered 201
\* returns 200 with the latitude and longitude of that POST's body (a query
\* the store fails to answer aside).
C3_RoundTrip ==
    [][\A c \in Conns :
        (Querying(c) /\ IsPostLocation(prev) /\ prev.resp.status = StatusCreated
         /\ prev'.err # ErrStore)
            => /\ prev'.resp.status = StatusOK
               /\ prev'.resp.loc.Latitude = prev.req.body.Latitude.v
               /\ prev'.resp.loc.Longitude = prev.req.body.Longitude.v]_vars

\* C4: a GET /api/location/last that the store answers returns 404 "No
\* locations found" when the table is empty; no GET returns 404 once a POST
\* has been answered 201; a GET leaves the table as it is.
C4_NotFoundIffEmpty ==
    [][\A c \in Conns :
        /\ (pc[c] # pc'[c] /\ "first" \in {pc[c], pc'[c]}) => DB' = DB
        /\ Querying(c) =>
            /\ IsGetLast(prev')
            /\ (DB = <<>> /\ prev'.err # ErrStore) =>
                  /\ prev'.resp.status = StatusNotFound
                  /\ prev'.resp.msg = "No locations found"
            /\ created >= 1 => prev'.resp.status # StatusNotFound]_vars

C4_Witness ==
    /\ IsGetLast(prev) /\ prev.dbOps = 1
    /\ prev.resp.status = StatusNotFound
    /\ DB = <<>>

\* C5: a POST /api/location whose body does not decode is answered 400
\* without a call on the store: the table is unchanged and such a request
\* never reaches DB.Create.
C5_BadPayload ==
    [][/\ (prev' # prev /\ IsPostLocation(prev')
           /\ prev'.req.body \in {Garbage} \cup BadObjects)
            => /\ prev'.resp.status = StatusBadRequest
               /\ prev'.dbOps = 0
               /\ DB' = DB
               /\ created' = created
       /\ \A c \in Conns :
            pc'[c] = "create" => r'[c].body \notin {Garbage} \cup BadObjects]_vars

C5_Witness ==
    /\ IsPostLocation(prev)
    /\ prev.req.body \in BadObjects
    /\ prev.resp.status = StatusBadRequest
    /\ DB # <<>>

\* C6: the timestamp of every stored record is the instant the store read
\* from its clock for that insert, so timestamps never decrease in insertion
\* order.
C6_StoreTimestamps ==
    /\ \A i, j \in 1..Len(DB) : i < j => DB[i].Timestamp <= DB[j].Timestamp
    /\ DB # <<>> => DB[Len(DB)].Timestamp = now

\* C7: in every interleaving of handlers, an insert answered 201 adds exactly
\* one row and leaves the others as they were, any other answer adds none,
\* nothing else changes the table, the table holds as many rows as 201
\* answers were written, and no two rows share an identity.
C7_OneRowPerCreated ==
    [][/\ \A c \in Conns : Inserting(c) =>
            IF prev'.resp.status = StatusCreated
            THEN /\ Len(DB') = Len(DB) + 1
                 /\ SubSeq(DB', 1, Len(DB)) = DB
                 /\ created' = created + 1
            ELSE DB' = DB /\ created' = created
       /\ DB' # DB => \E c \in Conns : Inserting(c)
       /\ Len(DB') = created'
       /\ \A i, j \in 1..Len(DB') : i # j => DB'[i].ID # DB'[j].ID]_vars

\* The second connection, taken while the first was busy, is still before
\* its insert of an identity that an insert answered 201 in the meantime has
\* stored.
C7_Witness ==
    /\ pc[1] = "idle" /\ pc[2] = "create"
    /\ IsPostLocation(prev) /\ prev.resp.status = StatusCreated
    /\ Len(DB) = 1 /\ created = 1
    /\ newLocation[2].ID = DB[1].ID

\* C8: OPTIONS on either path is answered 200 with an empty body and the
\* three Access-Control-Allow-* headers, whatever the table holds, without
\* the route's handler running: no call on the store, the table unchanged.
C8_Preflight ==
    [][/\ (prev' # prev /\ prev'.req.method = "OPTIONS")
            => /\ prev'.resp = Response(StatusOK, ThreeHeaders, "", ZeroLocation)
               /\ prev'.dbOps = 0
               /\ DB' = DB
               /\ pc' = pc
       /\ \A c \in Conns : pc'[c] # "idle" => r'[c].method # "OPTIONS"]_vars

C8_Witness ==
    /\ prev.req.method = "OPTIONS"
    /\ prev.req.path = PathLast
    /\ prev.resp.status = StatusOK
    /\ DB # <<>>

\* The method of req is neither OPTIONS nor the one its route serves.
NotServed(req) ==
    /\ req.method # "OPTIONS"
    /\ \/ req.path = PathLocation /\ req.method # "POST"
       \/ req.path = PathLast /\ req.method # "GET"

\* C9: a request whose method its route does not serve is answered 405 with
\* the three cross-origin headers, whatever its body, without a call on the
\* store: the table is unchanged and the request reaches neither DB.Create
\* nor the query.
C9_MethodNotAllowed ==
    [][/\ (prev' # prev /\ NotServed(prev'.req))
            => /\ prev'.resp.status = StatusMethodNotAllowed
               /\ ThreeHeaders \subseteq prev'.resp.header
               /\ prev'.dbOps = 0
               /\ DB' = DB
       /\ \A c \in Conns : pc'[c] # "idle" => ~NotServed(r'[c])]_vars

C9_Witness ==
    /\ prev.req = Request(PathLocation, "PUT", ValidBody)
    /\ prev.resp.status = StatusMethodNotAllowed
    /\ DB # <<>>

\* C10: a failed DB.Create is answered 500, never 201, after that one call
\* on the store; it leaves the table, the count of 201 answers and the other
\* handlers as they were; and the exchange that completes next is handled as
\* usual: an insert the store accepts is answered 201 and adds its row, a
\* query the store answers returns the row with the largest identity.
C10_InsertFailure ==
    [][\A c \in Conns :
        /\ (Inserting(c) /\ prev'.err # NoError) =>
              /\ prev'.resp.status = StatusInternalServerError
              /\ prev'.dbOps = 1
              /\ DB' = DB
              /\ created' = created
              /\ \A d \in Conns \ {c} :
                    pc'[d] = pc[d] /\ newLocation'[d] = newLocation[d]
        /\ (Inserting(c) /\ IsPostLocation(prev) /\ prev.err # NoError
            /\ prev'.err = NoError) =>
              /\ prev'.resp.status = StatusCreated
              /\ Len(DB') = Len(DB) + 1
              /\ SubSeq(DB', 1, Len(DB)) = DB
        /\ (Querying(c) /\ IsPostLocation(prev) /\ prev.err # NoError
            /\ prev'.err = NoError) =>
              /\ prev'.resp.status = StatusOK
              /\ prev'.resp.loc \in {DB[i] : i \in 1..Len(DB)}
              /\ prev'.resp.loc.ID = MaxID(DB)]_vars

C10_Witness ==
    /\ IsPostLocation(prev)
    /\ prev.err = ErrStore
    /\ prev.resp.status = StatusInternalServerError
    /\ DB # <<>>
====
